---- MODULE Spec2Model ----
(***************************************************************************)
(* A model of the request-proxy dataplane of the API gateway:              *)
(*   src/services/circuit.py  the per-service circuit breaker and the      *)
(*                            upstream client (call_service_with_status)   *)
(*   src/main.py              the proxy handler and the admission gates    *)
(*                                                                         *)
(* The gateway runs on one asyncio event loop: code between two awaits is  *)
(* one atomic step.  A request is suspended while it waits for an          *)
(* admission slot and while the upstream call is in flight; each action    *)
(* below is the code that runs between two such suspensions.               *)
(*                                                                         *)
(* Time is time.time() sampled on a grid of TimeGrain seconds.  The        *)
(* backoff factors 1.2, 1.5, 1.0 are kept exact by counting in tenths:     *)
(* backoff_factor holds 12, 15, 10 and dwells are compared in tenths of a  *)
(* second.                                                                 *)
(***************************************************************************)
EXTENDS Integers, Sequences, FiniteSets, TLC

\* ------------------------------------------------------------------ bounds
\* Number of request slots (client requests in progress at the same time).
NReq == 2
\* Number of clock ticks a behaviour may take.
MaxTicks == 4
\* Number of requests beyond the capacity of the gate under load.
ExtraRequests == 1

\* The refresh rounds after the first.
MaxRounds == 1

\* The chunks an upstream writes into one event stream.
MaxChunks == 3

\* ------------------------------------------------------ policy and inputs
\* Services the clients of a run address.
Services == {"core", "image", "user"}

NoService == "none"

\* initialize_circuit_state: configs and the default row
\* (backoff_factor in tenths).
ServiceConfig(service) ==
  CASE service = "image" ->
         [failure_threshold |-> 8, timeout |-> 45, success_threshold |-> 3,
          request_timeout |-> 60, backoff_factor |-> 15]
    [] service = "video" ->
         [failure_threshold |-> 8, timeout |-> 45, success_threshold |-> 3,
          request_timeout |-> 60, backoff_factor |-> 15]
    [] service = "core" ->
         [failure_threshold |-> 5, timeout |-> 15, success_threshold |-> 2,
          request_timeout |-> 25, backoff_factor |-> 12]
    [] OTHER ->
         [failure_threshold |-> 5, timeout |-> 30, success_threshold |-> 2,
          request_timeout |-> 20, backoff_factor |-> 10]

\* initialize_circuit_state: the state of a newly created circuit.
initialize_circuit_state(service) ==
  [state                 |-> "closed",
   failure_count         |-> 0,
   failure_threshold     |-> ServiceConfig(service).failure_threshold,
   timeout               |-> ServiceConfig(service).timeout,
   opened_at             |-> 0,
   consecutive_successes |-> 0,
   success_threshold     |-> ServiceConfig(service).success_threshold,
   request_timeout       |-> ServiceConfig(service).request_timeout,
   backoff_factor        |-> ServiceConfig(service).backoff_factor,
   retry_count           |-> 0]

\* The clock advances in steps of the smallest base dwell of the policy
\* table, so every base dwell (15, 30, 45 s) is met exactly on the grid.
TimeGrain == ServiceConfig("core").timeout

\* time.time() at process start: wall time is positive.
StartTime == TimeGrain

EndTime == StartTime + MaxTicks * TimeGrain

\* ---- the inbound request, as far as the two SSE classifiers read it.
\* A path and an Accept value are sequences of pieces of text; "sse/" as a
\* piece stands for the four characters, "SSE/" for them in capitals.
Paths ==
  { <<"ping">>, <<"sse/", "events">>, <<"api/", "sse/", "events">>,
    <<"SSE/", "events">> }

\* The Accept header: absent, or a value.
Accepts ==
  { << >>, <<"text/event-stream">>, <<"Text/Event-Stream">>,
    <<"application/json">> }

Inbound == [path : Paths, accept : Accepts]

\* str.lower() on a piece of text.
Lower(piece) ==
  CASE piece = "SSE/" -> "sse/"
    [] piece = "Text/Event-Stream" -> "text/event-stream"
    [] OTHER -> piece

\* needle in text
Contains(text, needle) == \E i \in 1..Len(text) : text[i] = needle

\* needle in text.lower()
ContainsLower(text, needle) == \E i \in 1..Len(text) : Lower(text[i]) = needle

\* target_url = f"{service_url}/{path}": the base URL (http://host:port
\* holds no 'sse/'), a slash, the path.
TargetUrl(path) == <<"http://host:port", "/">> \o path

\* proxy_to_service: is_sse_request =
\*   path.startswith("sse/") or "text/event-stream" in headers.get("accept", "")
HandlerClassifies(q) ==
  \/ Len(q.path) > 0 /\ q.path[1] = "sse/"
  \/ Contains(q.accept, "text/event-stream")

\* call_service_with_status: is_sse_request =
\*   'sse/' in url.lower() or any(h.lower() == 'accept'
\*                                and 'text/event-stream' in headers[h].lower())
ClientClassifies(q) ==
  \/ ContainsLower(TargetUrl(q.path), "sse/")
  \/ ContainsLower(q.accept, "text/event-stream")

\* What a client request looks like to the two classifiers:
\*   "plain"         SSE to neither
\*   "sse"           SSE to both
\*   "hinted"        regular to the handler, SSE to the client
\*   "handler_only"  SSE to the handler, regular to the client
KindOf(q) ==
  IF HandlerClassifies(q)
    THEN IF ClientClassifies(q) THEN "sse" ELSE "handler_only"
    ELSE IF ClientClassifies(q) THEN "hinted" ELSE "plain"

\* The kinds of request that exist.
RequestKinds == {KindOf(q) : q \in Inbound}

\* proxy_to_service: is_sse_request
HandlerIsSSE(kind) == kind \in {"sse", "handler_only"}

\* call_service_with_status: is_sse_request
ClientIsSSE(kind) == kind \in {"sse", "hinted"}

\* What the upstream call can end in: a response with a status code, or an
\* exception (httpx.TimeoutException, another httpx.RequestError, any other).
Statuses == {200, 404, 500}

Outcomes ==
  [type : {"response"}, status : Statuses]
    \cup [type : {"timeout", "connect", "other"}, status : {0}]

\* The response the gateway gives the client: the request it answers (its
\* service and kind), the status code and what the body is: the upstream's
\* own response ("relay", "stream") or the detail of an HTTPException, and
\* the N of "Retry in ~Ns" when the detail is the open circuit's; with it,
\* what the upstream did for that request: the status code it sent (0 when
\* it sent none) and the number of HTTP requests it was sent.
NoResponse ==
  [service |-> NoService, kind |-> "plain", status |-> 0, detail |-> "none",
   retry_in |-> 0, upstream |-> 0, calls |-> 0]

\* ------------------------------------------------------------------- state
VARIABLES
  scope,               \* the services the clients of this run address
  now,                 \* time.time()
  circuit_states,      \* circuit.py circuit_states: service -> circuit state
  CIRCUIT_STATE,       \* the gauge gateway_circuit_state: service -> 0 | 1
  permits,             \* the value of each admission semaphore
  pc,                  \* where each request slot is
  svc,                 \* the service a request in progress addresses
  kind,                \* its RequestKinds class
  response,            \* the response the gateway returned last
  calls,               \* the upstream HTTP requests sent for a request in progress
  service_cache,       \* main.py service_cache: [timestamp, services: name -> URL]
  environ,             \* os.environ: variable name -> value
  catalog,             \* what the discovery source publishes: name -> instances
  refresh,             \* the refresh_services task: its position and locals
  resolved,            \* what get_service_url returned last
  listed,              \* the answer to a GET /services not yet delivered
  running,             \* HealthService.running
  monitor,             \* where the monitoring task is
  results,             \* run_all_tests: the results of the round so far
  test_results,        \* the rows of the table test_results
  health_api,          \* the answer to the last request for a /health route
  shutdown,            \* "no", or what the monitor was when shutdown_event ran
  manual,              \* the run_all_tests tasks POST /health/run-tests started
  second,              \* where another call of start_monitoring is
  stream               \* the body of the upstream's answer to an SSE request

registry_vars == <<service_cache, environ, catalog, refresh, resolved, listed>>

\* What a lookup leaves alone.
registry_state == <<service_cache, environ, catalog, refresh, listed>>

health_vars ==
  <<running, monitor, results, test_results, health_api, shutdown, manual,
    second>>

stream_vars == <<stream>>

vars == <<scope, now, circuit_states, CIRCUIT_STATE, permits, pc, svc, kind,
          response, calls, registry_vars, health_vars, stream_vars>>

Reqs == DOMAIN pc

\* ------------------------------------------------------ service registry
\* A URL is the sequence of the pieces its f-string puts together.
NotFound == <<"404">>

\* main.py CORE_SERVICE_URL, USER_SERVICE_URL, IMAGE_SERVICE_URL when none of
\* them is set in the environment and CONTAINER_ENV is not "1".
DefaultUrl(service) ==
  CASE service = "core" -> <<"http://localhost:8000">>
    [] service = "user" -> <<"http://localhost:8002">>
    [] service = "image" -> <<"http://localhost:8003">>

\* The service_cache startup_event builds at time t.
SeededCache(t) ==
  [timestamp |-> t,
   services |-> [s \in {"core", "user", "image"} |-> DefaultUrl(s)]]

\* str.upper() on the service names clients use.
Upper(name) ==
  CASE name = "core" -> "CORE"
    [] name = "user" -> "USER"
    [] name = "image" -> "IMAGE"
    [] name = "video" -> "VIDEO"
    [] name = "audio" -> "AUDIO"
    [] name = "Payments" -> "PAYMENTS"
    [] name = "ghost" -> "GHOST"

\* env_var = f"{service.upper()}_SERVICE_URL"
EnvVar(service) == <<Upper(service), "_SERVICE_URL">>

\* os.getenv(name): None when the variable is not set; a variable can be set
\* to the empty string.
Unset == <<"None">>
Empty == << >>

getenv(env, name) == IF name \in DOMAIN env THEN env[name] ELSE Unset

\* (a variant that asks the environment before the cache)
get_service_url_env_first(cache, env, service) ==
  LET fallback_url == getenv(env, EnvVar(service)) IN
    IF fallback_url \notin {Unset, Empty} THEN fallback_url
    ELSE IF service \in DOMAIN cache.services THEN cache.services[service]
    ELSE NotFound

\* get_service_url: the cached URL, else the environment's (`if
\* fallback_url:` takes an empty value for none), else the 404.
get_service_url(cache, env, service) ==
  IF service \in DOMAIN cache.services
    THEN cache.services[service]
    ELSE LET fallback_url == getenv(env, EnvVar(service)) IN
           IF fallback_url \notin {Unset, Empty} THEN fallback_url ELSE NotFound

\* No GET /services is being answered.
NoList == [pending |-> FALSE, services |-> {}]

\* The refresh_services coroutine when no task runs it: startup_event
\* creates none.
NoRefresh == [pc |-> "absent", consul_services |-> {}, todo |-> {},
              services |-> << >>]

\* The registry after startup_event in the environment env, with nothing
\* published for discovery.
RegistryStartedIn(env) ==
  /\ service_cache = SeededCache(now)
  /\ environ = env
  /\ catalog = << >>
  /\ refresh = NoRefresh
  /\ resolved = << >>
  /\ listed = NoList

\* The same in an environment without *_SERVICE_URL variables.
RegistryAtStartup == RegistryStartedIn(<< >>)

\* An environment that names a URL for each of these services.
EnvironmentFor(services) ==
  [v \in {EnvVar(s) : s \in services} |-> <<"http://", v[1], ":9000">>]

\* --------------------------------------------------------- health monitor
\* The body of an upstream response: the chunks the upstream has written,
\* whether it has closed the body, and the chunks the client has been given.
NoStream == [sent |-> 0, closed |-> FALSE, delivered |-> 0]

\* No /health route has been asked.
NoAnswer == [route |-> "none", status |-> 0, body |-> << >>]

\* The health monitor after startup_event (init_db succeeded):
\* HealthService.__init__, and the task delayed_start asleep for its 30 s.
HealthAtStartup ==
  /\ running = FALSE
  /\ monitor = "delayed_start"
  /\ results = << >>
  /\ test_results = {}
  /\ health_api = NoAnswer
  /\ shutdown = "no"
  /\ manual = 0
  /\ second = "absent"

\* ------------------------------------------------------- admission gates
\* main.py service_semaphores and DEFAULT_SEMAPHORE: the semaphore object a
\* service's regular requests use.
Gates == {"core", "image", "video", "DEFAULT"}

Semaphore(service) ==
  IF service \in {"core", "image", "video"} THEN service ELSE "DEFAULT"

Capacity(gate) ==
  CASE gate = "core" -> 100
    [] gate = "image" -> 5
    [] gate = "video" -> 3
    [] OTHER -> 20

\* (a variant that admits a request whatever the value)
CanAcquireAlways(p, gate) == TRUE

\* asyncio.Semaphore: acquire() returns at once while the value is positive.
CanAcquire(p, gate) == p[gate] > 0

\* `async with semaphore`: entering takes a permit, leaving (by return or
\* by any exception) gives it back.
AcquireSlot(p, gate) == [p EXCEPT ![gate] = @ - 1]

ReleaseSlot(p, gate) == [p EXCEPT ![gate] = @ + 1]

\* -------------------------------------------------------- circuit breaker
Min(a, b) == IF a < b THEN a ELSE b

Max(a, b) == IF a > b THEN a ELSE b

\* backoff_multiplier = min(5, 1 + retry_count * backoff_factor), in tenths.
BackoffMultiplier(c) == Min(50, 10 + c.retry_count * c.backoff_factor)

\* timeout_with_backoff = timeout * backoff_multiplier, in tenths of a second.
TimeoutWithBackoff(c) == c.timeout * BackoffMultiplier(c)

\* (a variant whose dwell never ends)
DwellElapsedNever(c, t) == FALSE

\* (a variant that lets the request through at the very end of the dwell)
DwellElapsedInclusive(c, t) == (t - c.opened_at) * 10 >= TimeoutWithBackoff(c)

\* The dwell test of the open branch: current_time - opened_at > timeout_with_backoff.
DwellElapsed(c, t) == (t - c.opened_at) * 10 > TimeoutWithBackoff(c)

\* (a variant that never fails fast)
RejectsNever(c, t) == FALSE

\* The open circuit rejects the request (the else branch: fail fast).
Rejects(c, t) == c.state = "open" /\ ~DwellElapsed(c, t)

\* time_remaining = int(opened_at + timeout_with_backoff - current_time)
TimeRemaining(c, t) == (c.opened_at * 10 + TimeoutWithBackoff(c) - t * 10) \div 10

\* (a variant that goes half-open without advancing retry_count)
EnterCircuitNoRetry(c, t) ==
  IF c.state = "open" /\ DwellElapsed(c, t)
    THEN [c EXCEPT !.state = "half-open"]
    ELSE c

\* (a variant in which a rejected request restarts the dwell)
EnterCircuitPenalty(c, t) ==
  IF c.state = "open" /\ DwellElapsed(c, t)
    THEN [c EXCEPT !.state = "half-open", !.retry_count = c.retry_count + 1]
    ELSE IF c.state = "open" THEN [c EXCEPT !.opened_at = t] ELSE c

\* The circuit after the check at the head of call_service_with_status:
\* half-open once the dwell has elapsed, untouched otherwise (also when the
\* request is rejected).
EnterCircuit(c, t) ==
  IF c.state = "open" /\ DwellElapsed(c, t)
    THEN [c EXCEPT !.state = "half-open", !.retry_count = c.retry_count + 1]
    ELSE c

\* (a variant that closes the circuit one success early)
RecordSuccessEager(c) ==
  IF c.state = "closed"
    THEN [c EXCEPT !.failure_count = Max(0, c.failure_count - 1)]
  ELSE IF c.state = "half-open"
    THEN IF c.consecutive_successes + 2 >= c.success_threshold
           THEN [c EXCEPT !.state = "closed", !.consecutive_successes = 0,
                          !.failure_count = 0, !.retry_count = 0]
           ELSE [c EXCEPT !.consecutive_successes = c.consecutive_successes + 1]
  ELSE c

\* (a variant that closes the circuit without resetting retry_count)
RecordSuccessKeepsRetry(c) ==
  IF c.state = "closed"
    THEN [c EXCEPT !.failure_count = Max(0, c.failure_count - 1)]
  ELSE IF c.state = "half-open"
    THEN IF c.consecutive_successes + 1 >= c.success_threshold
           THEN [c EXCEPT !.state = "closed", !.consecutive_successes = 0,
                          !.failure_count = 0]
           ELSE [c EXCEPT !.consecutive_successes = c.consecutive_successes + 1]
  ELSE c

\* (a variant that closes the circuit one success late: > in place of >=)
RecordSuccessLate(c) ==
  IF c.state = "closed"
    THEN [c EXCEPT !.failure_count = Max(0, c.failure_count - 1)]
  ELSE IF c.state = "half-open"
    THEN IF c.consecutive_successes + 1 > c.success_threshold
           THEN [c EXCEPT !.state = "closed", !.consecutive_successes = 0,
                          !.failure_count = 0, !.retry_count = 0]
           ELSE [c EXCEPT !.consecutive_successes = c.consecutive_successes + 1]
  ELSE c

\* The success bookkeeping after a response (both client modes).
RecordSuccess(c) ==
  IF c.state = "closed"
    THEN [c EXCEPT !.failure_count = Max(0, c.failure_count - 1)]
  ELSE IF c.state = "half-open"
    THEN IF c.consecutive_successes + 1 >= c.success_threshold
           THEN [c EXCEPT !.state = "closed", !.consecutive_successes = 0,
                          !.failure_count = 0, !.retry_count = 0]
           ELSE [c EXCEPT !.consecutive_successes = c.consecutive_successes + 1]
  ELSE c

\* The success bookkeeping closes the circuit (and sets the gauge to 0).
ClosesCircuit(c) ==
  c.state = "half-open" /\ c.consecutive_successes + 1 >= c.success_threshold

\* (a variant that trips one failure late: > in place of >=)
RecordFailureLate(c, t) ==
  IF c.state = "closed"
    THEN IF c.failure_count + 1 > c.failure_threshold
           THEN [c EXCEPT !.failure_count = c.failure_count + 1,
                          !.state = "open", !.opened_at = t]
           ELSE [c EXCEPT !.failure_count = c.failure_count + 1]
    ELSE c

\* The failure bookkeeping of the except branch.
RecordFailure(c, t) ==
  IF c.state = "closed"
    THEN IF c.failure_count + 1 >= c.failure_threshold
           THEN [c EXCEPT !.failure_count = c.failure_count + 1,
                          !.state = "open", !.opened_at = t]
           ELSE [c EXCEPT !.failure_count = c.failure_count + 1]
    ELSE c

\* The failure bookkeeping opens the circuit (and sets the gauge to 1).
OpensCircuit(c) ==
  c.state = "closed" /\ c.failure_count + 1 >= c.failure_threshold

\* The regular client counts a response as a success.
CountsAsSuccess(status) == status < 500

\* The outcome runs the success bookkeeping: any response in the SSE branch,
\* a response below 500 in the regular branch.
IsSuccess(k, o) ==
  o.type = "response" /\ (ClientIsSSE(k) \/ CountsAsSuccess(o.status))

\* (a variant whose except branch skips the SSE client's exceptions)
IsFailureRegularOnly(k, o) == o.type # "response" /\ ~ClientIsSSE(k)

\* The outcome runs the except branch: an exception of either branch.
IsFailure(k, o) == o.type # "response"

\* (a variant with the statuses of the first two branches exchanged)
ErrorStatusSwapped(type) ==
  CASE type = "timeout" -> 503
    [] type = "connect" -> 504
    [] OTHER -> 500

\* (a variant that answers 502 for every upstream status of 500 or more)
RelayStatusMasked(status) == IF status >= 500 THEN 502 ELSE status

\* The status code of the response built from the upstream's:
\* JSONResponse / Response / StreamingResponse(status_code=response.status_code)
RelayStatus(status) == status

\* (a variant that sends the request a second time)
UpstreamRequestsRetried(k) == 2

\* The HTTP requests one invocation sends: one `await client.request(...)`
\* in either branch, outside any loop (httpx sends it once: no transport
\* retries, no redirects followed).
UpstreamRequests(k) == 1

\* The HTTPException the except branch raises for an exception type.
ErrorStatus(type) ==
  CASE type = "timeout" -> 504
    [] type = "connect" -> 503
    [] OTHER -> 500

ErrorDetail(type) ==
  CASE type = "timeout" -> "timed_out"
    [] type = "connect" -> "unavailable"
    [] OTHER -> "error"

\* ------------------------------------------------------------ operations
\* circuit_states with service created if it is not there yet.
Created(service) ==
  IF service \in DOMAIN circuit_states
    THEN circuit_states
    ELSE [x \in DOMAIN circuit_states \cup {service} |->
            IF x = service THEN initialize_circuit_state(service)
                           ELSE circuit_states[x]]

\* (a variant that leaves the gauge as it is)
GaugeSetDropped(service, v) == CIRCUIT_STATE

\* The gauge with service's sample set to v.
GaugeSet(service, v) ==
  [x \in DOMAIN CIRCUIT_STATE \cup {service} |->
     IF x = service THEN v ELSE CIRCUIT_STATE[x]]

\* call_service_with_status up to the upstream request: the circuit check,
\* then either the 503 rejection or the request in flight.  held is TRUE
\* when the caller holds an admission slot, which the rejection releases.
CallService(r, service, k, held) ==
  LET c == Created(service)[service] IN
    /\ circuit_states' =
         [Created(service) EXCEPT ![service] = EnterCircuit(c, now)]
    /\ IF Rejects(c, now)
         THEN /\ CIRCUIT_STATE' = GaugeSet(service, 1)
              /\ pc' = [pc EXCEPT ![r] = "done"]
              /\ svc' = [svc EXCEPT ![r] = NoService]
              /\ kind' = [kind EXCEPT ![r] = "plain"]
              /\ response' = [service |-> service, kind |-> k,
                              status |-> 503, detail |-> "circuit_open",
                              retry_in |-> TimeRemaining(c, now),
                              upstream |-> 0, calls |-> calls[r]]
              /\ permits' = permits
              /\ calls' = calls
         ELSE /\ CIRCUIT_STATE' = CIRCUIT_STATE
              /\ pc' = [pc EXCEPT ![r] = "upstream"]
              /\ svc' = [svc EXCEPT ![r] = service]
              /\ kind' = [kind EXCEPT ![r] = k]
              /\ response' = response
              /\ permits' =
                   IF held
                     THEN AcquireSlot(permits, Semaphore(service))
                     ELSE permits
              /\ calls' = [calls EXCEPT ![r] = @ + UpstreamRequests(k)]

\* get_service_url raised: the handler passes the 404 on.  Nothing of the
\* breaker or of admission has been touched by then.
ServiceNotFound(r, service, k) ==
  /\ pc' = [pc EXCEPT ![r] = "done"]
  /\ response' = [service |-> service, kind |-> k, status |-> 404,
                  detail |-> "not_found", retry_in |-> 0,
                  upstream |-> 0, calls |-> calls[r]]
  /\ UNCHANGED <<circuit_states, CIRCUIT_STATE, permits, svc, kind, calls>>

\* (a variant that sends every request through the semaphore)
ReceiveGated(r, service, k) ==
  /\ pc[r] = "idle"
  /\ service \in scope
  /\ resolved' = get_service_url(service_cache, environ, service)
  /\ IF resolved' = NotFound
       THEN ServiceNotFound(r, service, k)
       ELSE IF CanAcquire(permits, Semaphore(service))
         THEN CallService(r, service, k, TRUE)
         ELSE /\ pc' = [pc EXCEPT ![r] = "waiting"]
              /\ svc' = [svc EXCEPT ![r] = service]
              /\ kind' = [kind EXCEPT ![r] = k]
              /\ circuit_states' = Created(service)
              /\ UNCHANGED <<CIRCUIT_STATE, permits, response, calls>>
  /\ UNCHANGED <<scope, now, registry_state, health_vars, stream_vars>>

\* proxy_to_service, from the arrival of a request to its first suspension.
\* An SSE request calls the client directly; a regular request takes its
\* service's semaphore first, or waits for it when no permit is left.
\* The @circuit decorator around protected_call builds a new breaker object
\* for every request: its own failure counter is 0 when the call starts and
\* at most 1 when it ends, below every failure_threshold, so the decorator
\* never opens and passes results and exceptions through unchanged.
Receive(r, service, k) ==
  /\ pc[r] = "idle"
  /\ service \in scope
  /\ resolved' = get_service_url(service_cache, environ, service)
  /\ IF resolved' = NotFound
       THEN ServiceNotFound(r, service, k)
       ELSE IF HandlerIsSSE(k)
         THEN CallService(r, service, k, FALSE)
         ELSE IF CanAcquire(permits, Semaphore(service))
           THEN CallService(r, service, k, TRUE)
           ELSE /\ pc' = [pc EXCEPT ![r] = "waiting"]
                /\ svc' = [svc EXCEPT ![r] = service]
                /\ kind' = [kind EXCEPT ![r] = k]
                /\ circuit_states' = Created(service)
                /\ UNCHANGED <<CIRCUIT_STATE, permits, response, calls>>
  /\ UNCHANGED <<scope, now, registry_state, health_vars, stream_vars>>

\* A waiting regular request is woken with a permit and goes on.  (A
\* request waits only when a gate is exhausted, which takes as many requests
\* in progress as the gate's capacity: Acquire is part of the next-state
\* relation of specifications whose Init provides that many slots.)
Acquire(r) ==
  /\ pc[r] = "waiting"
  /\ CanAcquire(permits, Semaphore(svc[r]))
  /\ CallService(r, svc[r], kind[r], TRUE)
  /\ UNCHANGED <<scope, now, registry_vars, health_vars, stream_vars>>

\* call_service_with_status from the end of the upstream request: the
\* bookkeeping of the outcome and the response; the handler then leaves
\* `async with semaphore` if it entered it.
Complete(r, o) ==
  LET service == svc[r]
      c == circuit_states[service]
      success == IsSuccess(kind[r], o)
      failure == IsFailure(kind[r], o)
  IN
    /\ pc[r] = "upstream"
    \* the SSE client is built with timeout=None: it never times out
    /\ o.type = "timeout" => ~ClientIsSSE(kind[r])
    /\ circuit_states' =
         [circuit_states EXCEPT ![service] =
            IF success THEN RecordSuccess(c)
            ELSE IF failure THEN RecordFailure(c, now)
            ELSE c]
    /\ CIRCUIT_STATE' =
         IF success /\ ClosesCircuit(c) THEN GaugeSet(service, 0)
         ELSE IF failure /\ OpensCircuit(c) THEN GaugeSet(service, 1)
         ELSE CIRCUIT_STATE
    /\ response' =
         IF o.type = "response"
           THEN [service |-> service, kind |-> kind[r],
                 status |-> RelayStatus(o.status),
                 detail |-> IF ClientIsSSE(kind[r]) THEN "stream" ELSE "relay",
                 retry_in |-> 0, upstream |-> o.status, calls |-> calls[r]]
           ELSE [service |-> service, kind |-> kind[r],
                 status |-> ErrorStatus(o.type), detail |-> ErrorDetail(o.type),
                 retry_in |-> 0, upstream |-> 0, calls |-> calls[r]]
    /\ calls' = [calls EXCEPT ![r] = 0]
    /\ permits' =
         IF HandlerIsSSE(kind[r])
           THEN permits
           ELSE ReleaseSlot(permits, Semaphore(service))
    /\ pc' = [pc EXCEPT ![r] = "done"]
    /\ svc' = [svc EXCEPT ![r] = NoService]
    /\ kind' = [kind EXCEPT ![r] = "plain"]
    /\ UNCHANGED <<scope, now, registry_vars, health_vars, stream_vars>>

\* The handler's task is cancelled (the client went away, the server shuts
\* down) while it waits for a permit or for the upstream.  CancelledError is
\* no Exception: the except branch does not run and nothing is recorded;
\* `async with semaphore` still gives the permit back.
Cancel(r) ==
  /\ pc[r] \in {"waiting", "upstream"}
  /\ permits' =
       IF pc[r] = "upstream" /\ ~HandlerIsSSE(kind[r])
         THEN ReleaseSlot(permits, Semaphore(svc[r]))
         ELSE permits
  /\ pc' = [pc EXCEPT ![r] = "idle"]
  /\ svc' = [svc EXCEPT ![r] = NoService]
  /\ kind' = [kind EXCEPT ![r] = "plain"]
  /\ calls' = [calls EXCEPT ![r] = 0]
  /\ UNCHANGED <<scope, now, circuit_states, CIRCUIT_STATE, response, registry_vars,
                 health_vars, stream_vars>>

\* ---------------------------------------------------- registry operations
\* SERVICE_CACHE_TTL, in seconds.
SERVICE_CACHE_TTL == 300

\* The instances a discovery source describes a service by.
Instance(service_address, address, port) ==
  [ServiceAddress |-> service_address, Address |-> address, ServicePort |-> port]

\* What the discovery source can publish: always itself, and
\*   audio with two instances, the first without a ServiceAddress;
\*   audio with the two the other way round;
\*   Payments without instance, and no audio.
Catalogs ==
  LET consul == <<Instance("", "10.0.0.1", "8300")>>
      a == Instance("", "10.0.0.5", "8004")
      b == Instance("audio.svc", "10.0.0.6", "9004")
  IN { [n \in {"consul", "audio"} |->
          IF n = "consul" THEN consul ELSE <<a, b>>],
       [n \in {"consul", "audio"} |->
          IF n = "consul" THEN consul ELSE <<b, a>>],
       [n \in {"consul", "Payments"} |->
          IF n = "consul" THEN consul ELSE << >>] }

\* The catalog that publishes audio with its first instance at 10.0.0.5.
AudioCatalog ==
  CHOOSE c \in Catalogs :
    "audio" \in DOMAIN c /\ c["audio"][1].Address = "10.0.0.5"

\* address = instance['ServiceAddress'] or instance['Address'];
\* f"http://{address}:{port}"
InstanceUrl(instance) ==
  LET address == IF instance.ServiceAddress # ""
                   THEN instance.ServiceAddress ELSE instance.Address
  IN <<"http://", address, ":", instance.ServicePort>>

\* The refresh task between two rounds, and at the top of its loop.
Sleeping == [pc |-> "sleeping", consul_services |-> {}, todo |-> {},
             services |-> << >>]

Ready == [Sleeping EXCEPT !.pc = "ready"]

\* The dictionary d with d[key] = value.
Put(d, key, value) ==
  [x \in DOMAIN d \cup {key} |-> IF x = key THEN value ELSE d[x]]

\* refresh_services, a round's first call: consul_client.catalog.services().
\* An exception ends the round in the except branch.
RefreshList(ok) ==
  /\ refresh.pc = "ready"
  /\ refresh' =
       IF ok THEN [pc |-> "describing", consul_services |-> DOMAIN catalog,
                   todo |-> DOMAIN catalog, services |-> << >>]
             ELSE Sleeping
  /\ UNCHANGED <<scope, now, circuit_states, CIRCUIT_STATE, permits, pc, svc,
                 kind, response, calls, service_cache, environ, catalog,
                 resolved, listed, health_vars, stream_vars>>

\* (a variant that writes each discovered URL into the live mapping)
RefreshDescribeInPlace(service_name, ok) ==
  /\ refresh.pc = "describing"
  /\ service_name \in refresh.todo
  /\ IF service_name = "consul"
       THEN /\ refresh' = [refresh EXCEPT !.todo = @ \ {service_name}]
            /\ service_cache' = service_cache
       ELSE IF ~ok
         THEN refresh' = Sleeping /\ service_cache' = service_cache
         ELSE LET service_data == IF service_name \in DOMAIN catalog
                                    THEN catalog[service_name] ELSE << >>
              IN /\ refresh' = [refresh EXCEPT !.todo = @ \ {service_name}]
                 /\ service_cache' =
                      IF Len(service_data) > 0
                        THEN [service_cache EXCEPT !.services =
                                Put(@, service_name, InstanceUrl(service_data[1]))]
                        ELSE service_cache
  /\ UNCHANGED <<scope, now, circuit_states, CIRCUIT_STATE, permits, pc, svc,
                 kind, response, calls, environ, catalog, resolved, listed,
                 health_vars, stream_vars>>

\* The body of the for loop for one name of the listing:
\* consul_client.catalog.service(service_name), and the URL of its first
\* instance put into the local dictionary `services`.  The discovery client
\* is synchronous, so the gateway does nothing else during a round; the
\* discovery source does.
RefreshDescribe(service_name, ok) ==
  /\ refresh.pc = "describing"
  /\ service_name \in refresh.todo
  /\ refresh' =
       IF service_name = "consul"
         THEN [refresh EXCEPT !.todo = @ \ {service_name}]
       ELSE IF ~ok
         THEN Sleeping
       ELSE LET service_data == IF service_name \in DOMAIN catalog
                                  THEN catalog[service_name] ELSE << >>
            IN IF Len(service_data) > 0
                 THEN [refresh EXCEPT
                         !.todo = @ \ {service_name},
                         !.services =
                            Put(@, service_name, InstanceUrl(service_data[1]))]
                 ELSE [refresh EXCEPT !.todo = @ \ {service_name}]
  /\ UNCHANGED <<scope, now, circuit_states, CIRCUIT_STATE, permits, pc, svc,
                 kind, response, calls, service_cache, environ, catalog,
                 resolved, listed, health_vars, stream_vars>>

\* The end of the round: service_cache = {"timestamp": ..., "services": ...}
RefreshReplace ==
  /\ refresh.pc = "describing"
  /\ refresh.todo = {}
  /\ service_cache' = [timestamp |-> now, services |-> refresh.services]
  /\ refresh' = Sleeping
  /\ UNCHANGED <<scope, now, circuit_states, CIRCUIT_STATE, permits, pc, svc,
                 kind, response, calls, environ, catalog, resolved, listed,
                 health_vars, stream_vars>>

\* await asyncio.sleep(SERVICE_CACHE_TTL) returns.
RefreshWake ==
  /\ refresh.pc = "sleeping"
  /\ now + SERVICE_CACHE_TTL <= StartTime + MaxRounds * SERVICE_CACHE_TTL
  /\ now' = now + SERVICE_CACHE_TTL
  /\ refresh' = Ready
  /\ UNCHANGED <<scope, circuit_states, CIRCUIT_STATE, permits, pc, svc, kind,
                 response, calls, service_cache, environ, catalog, resolved,
                 listed, health_vars, stream_vars>>

\* The discovery source publishes something else.
CatalogChange(c) ==
  /\ c \in Catalogs
  /\ c # catalog
  /\ catalog' = c
  /\ UNCHANGED <<scope, now, circuit_states, CIRCUIT_STATE, permits, pc, svc,
                 kind, response, calls, service_cache, environ, refresh,
                 resolved, listed, health_vars, stream_vars>>

\* (a variant that answers with the names the cache was seeded with)
ServiceNamesSeeded(cache) == DOMAIN SeededCache(0).services

\* list(service_cache["services"].keys())
ServiceNames(cache) == DOMAIN cache.services

\* list_services: GET /services
ListServices ==
  /\ ~listed.pending
  /\ listed' = [pending |-> TRUE, services |-> ServiceNames(service_cache)]
  /\ UNCHANGED <<scope, now, circuit_states, CIRCUIT_STATE, permits, pc, svc,
                 kind, response, calls, service_cache, environ, catalog,
                 refresh, resolved, health_vars, stream_vars>>

\* The answer has gone to the client.
ListDelivered ==
  /\ listed.pending
  /\ listed' = NoList
  /\ UNCHANGED <<scope, now, circuit_states, CIRCUIT_STATE, permits, pc, svc,
                 kind, response, calls, service_cache, environ, catalog,
                 refresh, resolved, health_vars, stream_vars>>

\* The response has gone to the client; the slot is free for a new request.
Finish(r) ==
  /\ pc[r] = "done"
  /\ pc' = [pc EXCEPT ![r] = "idle"]
  /\ UNCHANGED <<scope, now, circuit_states, CIRCUIT_STATE, permits, svc, kind,
                 response, calls, registry_vars, health_vars, stream_vars>>

\* Wall time passes.
Tick ==
  /\ now + TimeGrain <= EndTime
  /\ now' = now + TimeGrain
  /\ UNCHANGED <<scope, circuit_states, CIRCUIT_STATE, permits, pc, svc, kind,
                 response, calls, registry_vars, health_vars, stream_vars>>

\* ----------------------------------------------------------- specification
Init ==
  /\ scope \in {{s} : s \in Services}
  /\ now = StartTime
  /\ circuit_states = << >>
  /\ CIRCUIT_STATE = << >>
  /\ permits = [g \in Gates |-> Capacity(g)]
  /\ pc = [r \in 1..NReq |-> "idle"]
  /\ svc = [r \in 1..NReq |-> NoService]
  /\ kind = [r \in 1..NReq |-> "plain"]
  /\ response = NoResponse
  /\ calls = [r \in 1..NReq |-> 0]
  /\ RegistryAtStartup
  /\ HealthAtStartup
  /\ stream = NoStream

Next ==
  \/ \E r \in Reqs, s \in scope, k \in RequestKinds : Receive(r, s, k)
  \/ \E r \in Reqs, o \in Outcomes : Complete(r, o)
  \/ \E r \in Reqs : Cancel(r)
  \/ \E r \in Reqs : Finish(r)
  \/ Tick

Spec == Init /\ [][Next]_vars

\* ---- the gateway under load: enough requests in progress to exhaust a gate.
\* The clients address either video, whose gate is the smallest (3 permits),
\* with more requests than it has permits, or two services that have no
\* gate of their own (user, and audio resolved like any other registered
\* name).  No time passes in these runs: a circuit that opens stays inside
\* its dwell.  The requests are those the two classifiers read alike.
AdmissionKinds == {k \in RequestKinds : HandlerIsSSE(k) = ClientIsSSE(k)}

AdmissionScopes == {{"video"}, {"user", "audio"}}

AdmissionSlots(sc) ==
  IF sc = {"video"} THEN Capacity("video") + ExtraRequests ELSE NReq

InitAdmission ==
  /\ scope \in AdmissionScopes
  /\ now = StartTime
  /\ circuit_states = << >>
  /\ CIRCUIT_STATE = << >>
  /\ permits = [g \in Gates |-> Capacity(g)]
  /\ pc = [r \in 1..AdmissionSlots(scope) |-> "idle"]
  /\ svc = [r \in 1..AdmissionSlots(scope) |-> NoService]
  /\ kind = [r \in 1..AdmissionSlots(scope) |-> "plain"]
  /\ response = NoResponse
  /\ calls = [r \in 1..AdmissionSlots(scope) |-> 0]
  /\ RegistryStartedIn(EnvironmentFor(scope))
  /\ HealthAtStartup
  /\ stream = NoStream

NextAdmission ==
  \/ \E r \in Reqs, s \in scope, k \in AdmissionKinds : Receive(r, s, k)
  \/ \E r \in Reqs : Acquire(r)
  \/ \E r \in Reqs, o \in Outcomes : Complete(r, o)
  \/ \E r \in Reqs : Cancel(r)
  \/ \E r \in Reqs : Finish(r)

SpecAdmission == InitAdmission /\ [][NextAdmission]_vars

\* ------------------------------------------------ registry specifications
\* The names clients ask for: one the discovery source publishes, one only
\* the environment can know (in a spelling upper() changes), one nobody
\* knows.
RegistryNames == {"audio", "Payments", "ghost"}

\* The environments: none of the variables; AUDIO_SERVICE_URL and
\* PAYMENTS_SERVICE_URL with a URL each; PAYMENTS_SERVICE_URL set to the
\* empty string.
Environments ==
  { << >>,
    EnvironmentFor({"audio", "Payments"}),
    [v \in {EnvVar("Payments")} |-> Empty] }

\* The upstreams answer 200: the breaker stays as it is created.
RegistryOutcomes == {o \in Outcomes : o.type = "response" /\ o.status = 200}

\* After startup_event, with the coroutine refresh_services ("Background
\* task to refresh service registry from Consul") running as a task and
\* about to begin its first round.
InitRefresh ==
  /\ scope = RegistryNames
  /\ now = StartTime
  /\ circuit_states = << >>
  /\ CIRCUIT_STATE = << >>
  /\ permits = [g \in Gates |-> Capacity(g)]
  /\ pc = [r \in {1} |-> "idle"]
  /\ svc = [r \in {1} |-> NoService]
  /\ kind = [r \in {1} |-> "plain"]
  /\ response = NoResponse
  /\ calls = [r \in {1} |-> 0]
  /\ service_cache = SeededCache(now)
  /\ environ \in Environments
  /\ catalog = AudioCatalog
  /\ refresh = Ready
  /\ resolved = << >>
  /\ listed = NoList
  /\ HealthAtStartup
  /\ stream = NoStream

NextRefresh ==
  \/ \E r \in Reqs, s \in scope : Receive(r, s, "plain")
  \/ \E r \in Reqs, o \in RegistryOutcomes : Complete(r, o)
  \/ \E r \in Reqs : Finish(r)
  \/ \E ok \in BOOLEAN : RefreshList(ok)
  \/ \E n \in refresh.todo, ok \in BOOLEAN : RefreshDescribe(n, ok)
  \/ RefreshReplace
  \/ RefreshWake
  \/ \E c \in Catalogs : CatalogChange(c)
  \/ ListServices
  \/ ListDelivered

SpecRefresh == InitRefresh /\ [][NextRefresh]_vars

\* After startup_event as it is written: it creates no task for
\* refresh_services, and nothing else refers to the coroutine.
InitRegistry ==
  /\ scope = RegistryNames
  /\ now = StartTime
  /\ circuit_states = << >>
  /\ CIRCUIT_STATE = << >>
  /\ permits = [g \in Gates |-> Capacity(g)]
  /\ pc = [r \in 1..NReq |-> "idle"]
  /\ svc = [r \in 1..NReq |-> NoService]
  /\ kind = [r \in 1..NReq |-> "plain"]
  /\ response = NoResponse
  /\ calls = [r \in 1..NReq |-> 0]
  /\ service_cache = SeededCache(now)
  /\ environ \in Environments
  /\ catalog = AudioCatalog
  /\ refresh = NoRefresh
  /\ resolved = << >>
  /\ listed = NoList
  /\ HealthAtStartup
  /\ stream = NoStream

NextRegistry ==
  \/ \E r \in Reqs, s \in scope : Receive(r, s, "plain")
  \/ \E r \in Reqs, o \in RegistryOutcomes : Complete(r, o)
  \/ \E r \in Reqs : Finish(r)
  \/ ListServices
  \/ ListDelivered
  \/ Tick

\* The event loop runs whatever is ready, and clients keep asking.
SpecRegistry == InitRegistry /\ [][NextRegistry]_vars /\ WF_vars(NextRegistry)

\* =========================================================== health monitor
\* The services of the cache load_service_definitions reads at startup, in
\* the order of the dict.
ConfigOrder == <<"core", "user", "image">>

\* HealthService._get_default_tests
_get_default_tests(service_name) ==
  LET health_check ==
        [name |-> "health_check", method |-> "GET", path |-> "/health",
         expected_status |-> {200}]
  IN  CASE service_name = "audio" ->
             <<health_check,
               [name |-> "get_voices_list", method |-> "GET",
                path |-> "/voices/project/00000000-0000-0000-0000-000000000000",
                expected_status |-> {200}]>>
        [] service_name = "user" ->
             <<health_check,
               [name |-> "user_check", method |-> "GET",
                path |-> "/users/health", expected_status |-> {200}]>>
        [] OTHER -> <<health_check>>

\* HealthService.load_service_definitions on the cache of startup_event.
services_config ==
  [service_name \in DOMAIN SeededCache(StartTime).services |->
     [base_url |-> SeededCache(StartTime).services[service_name],
      tests |-> _get_default_tests(service_name)]]

\* The probes of one run_all_tests, in the order of its two loops.
RECURSIVE ProbesOf(_)
ProbesOf(names) ==
  IF names = << >> THEN << >>
  ELSE LET tests == services_config[Head(names)].tests
       IN  [i \in 1..Len(tests) |->
              [service_name |-> Head(names), test |-> tests[i]]]
             \o ProbesOf(Tail(names))

Probes == ProbesOf(ConfigOrder)

\* HealthService.run_test when its own httpx client ends in outcome o: the
\* result, without the message, the duration and the time.
run_test(service_name, test, o) ==
  [service_name |-> service_name,
   test_name |-> test.name,
   last_status |->
     IF service_name \notin DOMAIN services_config THEN "NA"
     ELSE IF test.method \notin {"GET", "POST"} THEN "ERROR"
     ELSE IF o.type = "response"
            THEN IF o.status \in test.expected_status THEN "OK" ELSE "ERROR"
            ELSE "ERROR"]

\* HealthService._save_test_result: it writes a log line; the table is what
\* it was.
_save_test_result(table, result) == table

\* HealthService.get_test_results: two fixed results, whatever the arguments.
get_test_results ==
  <<[service_name |-> "audio", test_name |-> "health_check",
     last_status |-> "OK"],
    [service_name |-> "user", test_name |-> "health_check",
     last_status |-> "OK"]>>

\* get_health_dashboard: the status it gives a service of the results.
ServiceStatus(rs, service_name) ==
  IF \E i \in DOMAIN rs : /\ rs[i].service_name = service_name
                          /\ rs[i].last_status = "ERROR"
    THEN "ERROR"
    ELSE "OK"

\* get_health_dashboard: "services" of its answer, one entry for each service
\* of the results in the order of its first result.
DashboardServices(rs) ==
  LET names == {rs[i].service_name : i \in DOMAIN rs}
      First(s) == CHOOSE i \in DOMAIN rs :
                    /\ rs[i].service_name = s
                    /\ \A j \in 1..(i - 1) : rs[j].service_name # s
      order == CHOOSE q \in [1..Cardinality(names) -> names] :
                 \A a, b \in DOMAIN q : a < b => First(q[a]) < First(q[b])
  IN  [k \in DOMAIN order |->
         [name |-> order[k], status |-> ServiceStatus(rs, order[k])]]

\* The module global health_service of routes/health.py. Only
\* init_health_service assigns it, and nothing calls init_health_service.
Undefined == <<"NameError">>

RoutesHealthService == Undefined

\* A route that depends on get_health_service: reading the global that was
\* never assigned raises NameError, which the application answers with 500.
HealthRoute(route, body) ==
  /\ health_api' =
       IF RoutesHealthService = Undefined
         THEN [route |-> route, status |-> 500, body |-> << >>]
         ELSE [route |-> route, status |-> 200, body |-> body]
  /\ UNCHANGED <<scope, now, circuit_states, CIRCUIT_STATE, permits, pc, svc,
                 kind, response, calls, registry_vars, running, monitor,
                 results, test_results, shutdown, manual, second,
                 stream_vars>>

\* GET /health/tests
GetHealthTests == HealthRoute("tests", get_test_results)

\* GET /health/dashboard
GetHealthDashboard ==
  HealthRoute("dashboard", DashboardServices(get_test_results))

\* (a variant whose dependency hands over the HealthService, so that the
\* route starts a run of its own)
RunHealthTestsStarted ==
  /\ manual < 2
  /\ health_api' = [route |-> "run-tests", status |-> 200, body |-> << >>]
  /\ manual' = manual + 1
  /\ UNCHANGED <<scope, now, circuit_states, CIRCUIT_STATE, permits, pc, svc,
                 kind, response, calls, registry_vars, running, monitor,
                 results, test_results, shutdown, second, stream_vars>>

\* POST /health/run-tests: create_task(run_all_tests()) once the dependency
\* get_health_service has handed over the HealthService, which it never does.
RunHealthTests ==
  /\ health_api' =
       IF RoutesHealthService = Undefined
         THEN [route |-> "run-tests", status |-> 500, body |-> << >>]
         ELSE [route |-> "run-tests", status |-> 200, body |-> << >>]
  /\ manual' = IF RoutesHealthService = Undefined THEN manual ELSE manual + 1
  /\ UNCHANGED <<scope, now, circuit_states, CIRCUIT_STATE, permits, pc, svc,
                 kind, response, calls, registry_vars, running, monitor,
                 results, test_results, shutdown, second, stream_vars>>

\* delayed_start after its 30 s: start_monitoring up to its first sleep.
StartMonitoring ==
  /\ monitor = "delayed_start"
  /\ IF running
       THEN /\ monitor' = "returned"
            /\ UNCHANGED running
       ELSE /\ running' = TRUE
            /\ monitor' = "initial_delay"
  /\ UNCHANGED <<scope, now, circuit_states, CIRCUIT_STATE, permits, pc, svc,
                 kind, response, calls, registry_vars, results, test_results,
                 health_api, shutdown, manual, second, stream_vars>>

\* start_monitoring when a sleep of it ends: `while self.running`, then
\* run_all_tests up to the request of its first probe; or the finally block.
LoopCheck ==
  /\ monitor \in {"initial_delay", "interval"}
  /\ IF running
       THEN /\ results' = << >>
            /\ monitor' = IF Probes = << >> THEN "interval" ELSE "run_test"
            /\ UNCHANGED running
       ELSE /\ running' = FALSE
            /\ monitor' = "ended"
            /\ UNCHANGED results
  /\ UNCHANGED <<scope, now, circuit_states, CIRCUIT_STATE, permits, pc, svc,
                 kind, response, calls, registry_vars, test_results,
                 health_api, shutdown, manual, second, stream_vars>>

\* A probe that fed the breaker of the service it probed.
ProbeDoneThroughBreaker(o) ==
  LET probe == Probes[Len(results) + 1]
      result == run_test(probe.service_name, probe.test, o)
      service == probe.service_name
  IN  /\ monitor = "run_test"
      /\ results' = Append(results, result)
      /\ test_results' = _save_test_result(test_results, result)
      /\ monitor' = "pause"
      /\ circuit_states' =
           IF service \in DOMAIN circuit_states /\ result.last_status = "ERROR"
             THEN [circuit_states EXCEPT
                     ![service].failure_count = (@ + 1) % 8]
             ELSE circuit_states
      /\ UNCHANGED <<scope, now, CIRCUIT_STATE, permits, pc, svc, kind,
                     response, calls, registry_vars, running, health_api,
                     shutdown, manual, second, stream_vars>>

\* run_all_tests from the end of a probe's request to the sleep of 0.5 s:
\* run_test's result is appended and handed to _save_test_result.
ProbeDone(o) ==
  LET probe == Probes[Len(results) + 1]
      result == run_test(probe.service_name, probe.test, o)
  IN  /\ monitor = "run_test"
      /\ results' = Append(results, result)
      /\ test_results' = _save_test_result(test_results, result)
      /\ monitor' = "pause"
      /\ UNCHANGED <<scope, now, circuit_states, CIRCUIT_STATE, permits, pc,
                     svc, kind, response, calls, registry_vars, running,
                     health_api, shutdown, manual, second, stream_vars>>

\* run_all_tests after the 0.5 s: the request of the next probe, or the
\* return to start_monitoring, which sleeps until the next round.
ProbePause ==
  /\ monitor = "pause"
  /\ monitor' = IF Len(results) < Len(Probes) THEN "run_test" ELSE "interval"
  /\ UNCHANGED <<scope, now, circuit_states, CIRCUIT_STATE, permits, pc, svc,
                 kind, response, calls, registry_vars, running, results,
                 test_results, health_api, shutdown, manual, second,
                 stream_vars>>

\* shutdown_event: HealthService has no attribute stop_monitoring, so the
\* call raises AttributeError and the handler ends with nothing changed.
Shutdown ==
  /\ shutdown = "no"
  /\ shutdown' = IF running THEN "monitor_running" ELSE "monitor_idle"
  /\ UNCHANGED <<scope, now, circuit_states, CIRCUIT_STATE, permits, pc, svc,
                 kind, response, calls, registry_vars, running, monitor,
                 results, test_results, health_api, manual, second,
                 stream_vars>>

\* The monitor next to the traffic of one client for a service it probes.
HealthNames == {"user"}

InitHealth ==
  /\ scope = HealthNames
  /\ now = StartTime
  /\ circuit_states = << >>
  /\ CIRCUIT_STATE = << >>
  /\ permits = [g \in Gates |-> Capacity(g)]
  /\ pc = [r \in {1} |-> "idle"]
  /\ svc = [r \in {1} |-> NoService]
  /\ kind = [r \in {1} |-> "plain"]
  /\ response = NoResponse
  /\ calls = [r \in {1} |-> 0]
  /\ RegistryAtStartup
  /\ HealthAtStartup
  /\ stream = NoStream

NextHealth ==
  \/ \E r \in Reqs, s \in scope : Receive(r, s, "plain")
  \/ \E r \in Reqs, o \in Outcomes : Complete(r, o)
  \/ \E r \in Reqs : Finish(r)
  \/ StartMonitoring
  \/ LoopCheck
  \/ \E o \in Outcomes : ProbeDone(o)
  \/ ProbePause
  \/ GetHealthTests
  \/ GetHealthDashboard
  \/ RunHealthTests
  \/ Shutdown

SpecHealth == InitHealth /\ [][NextHealth]_vars

\* ============================================================ SSE streams
\* The SSE request in flight to the upstream, if there is one.
Streaming(r) == pc[r] = "upstream" /\ ClientIsSSE(kind[r])

\* The upstream writes an event into the body of its response.
UpstreamChunk ==
  /\ \E r \in Reqs : Streaming(r)
  /\ ~stream.closed
  /\ stream.sent < MaxChunks
  /\ stream' = [stream EXCEPT !.sent = @ + 1]
  /\ UNCHANGED <<scope, now, circuit_states, CIRCUIT_STATE, permits, pc, svc,
                 kind, response, calls, registry_vars, health_vars>>

\* The upstream ends the body of its response.
UpstreamClose ==
  /\ \E r \in Reqs : Streaming(r)
  /\ ~stream.closed
  /\ stream' = [stream EXCEPT !.closed = TRUE]
  /\ UNCHANGED <<scope, now, circuit_states, CIRCUIT_STATE, permits, pc, svc,
                 kind, response, calls, registry_vars, health_vars>>

\* `await client.request(...)` of the SSE branch returns: request() sends
\* the request without stream=True, so httpx reads the body to its end
\* before it hands the response over.
BodyRead(s) == s.closed

\* call_service_with_status of an SSE request from the return of
\* client.request to the StreamingResponse.
StreamReturns(r, o) ==
  /\ Streaming(r)
  /\ o.type = "response"
  /\ BodyRead(stream)
  /\ Complete(r, o)

\* The SSE request fails before the upstream has answered.
StreamFails(r, o) ==
  /\ Streaming(r)
  /\ o.type \in {"connect", "other"}
  /\ stream = NoStream
  /\ Complete(r, o)

\* StreamingResponse(response.aiter_bytes()): the next chunk of what
\* client.request has read goes to the client.
Deliver ==
  /\ \E r \in Reqs : pc[r] = "done"
  /\ response.detail = "stream"
  /\ stream.delivered < stream.sent
  /\ stream' = [stream EXCEPT !.delivered = @ + 1]
  /\ UNCHANGED <<scope, now, circuit_states, CIRCUIT_STATE, permits, pc, svc,
                 kind, response, calls, registry_vars, health_vars>>

\* One client opens one event stream on a service.
InitStream ==
  /\ scope \in {{s} : s \in Services}
  /\ now = StartTime
  /\ circuit_states = << >>
  /\ CIRCUIT_STATE = << >>
  /\ permits = [g \in Gates |-> Capacity(g)]
  /\ pc = [r \in {1} |-> "idle"]
  /\ svc = [r \in {1} |-> NoService]
  /\ kind = [r \in {1} |-> "plain"]
  /\ response = NoResponse
  /\ calls = [r \in {1} |-> 0]
  /\ RegistryAtStartup
  /\ HealthAtStartup
  /\ stream = NoStream

GatewayStreamStep ==
  \/ \E r \in Reqs, o \in Outcomes : StreamReturns(r, o)
  \/ Deliver

NextStream ==
  \/ \E r \in Reqs, s \in scope, k \in {x \in RequestKinds : ClientIsSSE(x)} :
       Receive(r, s, k)
  \/ UpstreamChunk
  \/ UpstreamClose
  \/ \E r \in Reqs, o \in Outcomes : StreamFails(r, o)
  \/ GatewayStreamStep

\* The event loop runs the gateway's steps when they are ready; when the
\* upstream writes and whether it ever closes is the upstream's affair.
SpecStream == InitStream /\ [][NextStream]_vars /\ WF_vars(GatewayStreamStep)

\* =============================================================== recovery
\* The upstream is down at the start and sound from the first tick on: from
\* then on every call returns a response with a status below 500.
RecoveryComplete(r, o) ==
  /\ now = StartTime \/ (o.type = "response" /\ CountsAsSuccess(o.status))
  /\ Complete(r, o)

RecoveryOutcomes ==
  {o \in Outcomes : o.type \in {"response", "connect"} /\ o.status # 404}

RecoveryKinds == {"plain", "sse"}

NextRecovery ==
  \/ \E r \in Reqs, s \in scope, k \in RecoveryKinds : Receive(r, s, k)
  \/ \E r \in Reqs, o \in RecoveryOutcomes : RecoveryComplete(r, o)
  \/ \E r \in Reqs : Finish(r)
  \/ Tick

\* Requests keep arriving, the upstream answers every call, responses go
\* out, and time advances.
SpecRecovery ==
  /\ Init
  /\ [][NextRecovery]_vars
  /\ WF_vars(\E r \in Reqs, s \in scope, k \in RecoveryKinds : Receive(r, s, k))
  /\ WF_vars(\E r \in Reqs, o \in RecoveryOutcomes : RecoveryComplete(r, o))
  /\ WF_vars(\E r \in Reqs : Finish(r))
  /\ WF_vars(Tick)

\* ======================================================= monitoring loops
\* (a variant of start_monitoring without the test of self.running)
StartMonitoringAgainUnguarded ==
  /\ second = "pending"
  /\ running' = TRUE
  /\ second' = "initial_delay"
  /\ UNCHANGED <<scope, now, circuit_states, CIRCUIT_STATE, permits, pc, svc,
                 kind, response, calls, registry_vars, monitor, results,
                 test_results, health_api, shutdown, manual, stream_vars>>

\* Another call of start_monitoring on the same HealthService, up to its
\* first sleep: it returns at once while running is true.
StartMonitoringAgain ==
  /\ second = "pending"
  /\ IF running
       THEN /\ second' = "returned"
            /\ UNCHANGED running
       ELSE /\ running' = TRUE
            /\ second' = "initial_delay"
  /\ UNCHANGED <<scope, now, circuit_states, CIRCUIT_STATE, permits, pc, svc,
                 kind, response, calls, registry_vars, monitor, results,
                 test_results, health_api, shutdown, manual, stream_vars>>

\* The task of delayed_start is cancelled at one of its awaits.  Inside
\* start_monitoring the CancelledError is caught and the finally block sets
\* running to False (its loop over self.clients then raises AttributeError);
\* in the sleep of delayed_start the task just ends.
MonitorCancelled ==
  /\ monitor \in {"delayed_start", "initial_delay", "run_test", "pause",
                  "interval"}
  /\ running' = IF monitor = "delayed_start" THEN running ELSE FALSE
  /\ monitor' = "ended"
  /\ UNCHANGED <<scope, now, circuit_states, CIRCUIT_STATE, permits, pc, svc,
                 kind, response, calls, registry_vars, results, test_results,
                 health_api, shutdown, manual, second, stream_vars>>

\* The task of the other call is cancelled in its initial sleep.
SecondCancelled ==
  /\ second = "initial_delay"
  /\ running' = FALSE
  /\ second' = "ended"
  /\ UNCHANGED <<scope, now, circuit_states, CIRCUIT_STATE, permits, pc, svc,
                 kind, response, calls, registry_vars, monitor, results,
                 test_results, health_api, shutdown, manual, stream_vars>>

\* The monitor with another caller of start_monitoring next to the task of
\* startup_event, and tasks that can be cancelled.
InitMonitor ==
  /\ scope = HealthNames
  /\ now = StartTime
  /\ circuit_states = << >>
  /\ CIRCUIT_STATE = << >>
  /\ permits = [g \in Gates |-> Capacity(g)]
  /\ pc = [r \in {1} |-> "idle"]
  /\ svc = [r \in {1} |-> NoService]
  /\ kind = [r \in {1} |-> "plain"]
  /\ response = NoResponse
  /\ calls = [r \in {1} |-> 0]
  /\ RegistryAtStartup
  /\ running = FALSE
  /\ monitor = "delayed_start"
  /\ results = << >>
  /\ test_results = {}
  /\ health_api = NoAnswer
  /\ shutdown = "no"
  /\ manual = 0
  /\ second = "pending"
  /\ stream = NoStream

NextMonitor ==
  \/ StartMonitoring
  \/ StartMonitoringAgain
  \/ LoopCheck
  \/ \E o \in Outcomes : ProbeDone(o)
  \/ ProbePause
  \/ MonitorCancelled
  \/ SecondCancelled

SpecMonitor == InitMonitor /\ [][NextMonitor]_vars

\* ================================================================ claims
\* What a step did to request r, read off the state change.

\* r went through the circuit check in this step.
Entered(r) == pc[r] \in {"idle", "waiting"} /\ pc'[r] \in {"upstream", "done"}

\* r was rejected by the open circuit.
Rejected(r) == Entered(r) /\ pc'[r] = "done" /\ response'.detail = "circuit_open"

\* r was sent to the upstream.
Forwarded(r) == Entered(r) /\ pc'[r] = "upstream"

\* r's upstream call ended.
Completed(r) == pc[r] = "upstream" /\ pc'[r] = "done"

\* r's upstream call ended in an exception (timeout, connection error, other).
Failed(r) ==
  Completed(r) /\ response'.detail \in {"timed_out", "unavailable", "error"}

\* r's upstream call ended in a response with this property of its status.
RespondedBelow500(r) ==
  Completed(r) /\ response'.detail \in {"relay", "stream"} /\ response'.status < 500

Responded5xx(r) ==
  Completed(r) /\ response'.detail \in {"relay", "stream"} /\ response'.status >= 500

\* The service and the kind of the request that entered in this step.
EnteredService(r) == IF pc'[r] = "done" THEN response'.service ELSE svc'[r]

EnteredKind(r) == IF pc'[r] = "done" THEN response'.kind ELSE kind'[r]

\* effective_dwell = base_timeout_seconds * min(5, 1 + retry_count *
\* backoff_factor) of the data model, in tenths of a second.
EffectiveDwell(c) ==
  c.timeout * (IF 10 + c.retry_count * c.backoff_factor < 50
                 THEN 10 + c.retry_count * c.backoff_factor ELSE 50)

\* now - opened_at <= effective_dwell
WithinDwell(c, t) == (t - c.opened_at) * 10 <= EffectiveDwell(c)

\* C1: a failure of the upstream call recorded while the circuit is
\* half-open returns the circuit to open with opened_at = now, so that a
\* request arriving inside the dwell is rejected.
C1_HalfOpenFailureReopens ==
  [][\A r \in Reqs :
       (Failed(r) /\ circuit_states[svc[r]].state = "half-open")
         => /\ circuit_states'[svc[r]].state = "open"
            /\ circuit_states'[svc[r]].opened_at = now
            /\ WithinDwell(circuit_states'[svc[r]], now')]_vars

\* C2: a non-SSE upstream response with status >= 500 is recorded as a
\* failure: in closed it increments failure_count and opens the circuit on
\* reaching failure_threshold, in half-open it returns the circuit to open.
C2_ServerErrorRecordedAsFailure ==
  [][\A r \in Reqs :
       (Responded5xx(r) /\ ~ClientIsSSE(kind[r]) /\ ~HandlerIsSSE(kind[r]))
         => LET c == circuit_states[svc[r]]
                d == circuit_states'[svc[r]]
            IN /\ c.state = "closed" =>
                    /\ d.failure_count = c.failure_count + 1
                    /\ (c.failure_count + 1 >= c.failure_threshold
                          => d.state = "open")
               /\ c.state = "half-open" => d.state = "open"]_vars

\* C3: in closed state a recorded failure adds exactly 1 to failure_count;
\* the failure with which failure_count reaches failure_threshold sets
\* state = open, opened_at = now and the gauge to 1; below the threshold the
\* circuit stays closed.
C3_ClosedFailureCountsAndTrips ==
  [][\A r \in Reqs :
       (Failed(r) /\ circuit_states[svc[r]].state = "closed")
         => LET c == circuit_states[svc[r]]
                d == circuit_states'[svc[r]]
            IN /\ d.failure_count = c.failure_count + 1
               /\ d.failure_count <= c.failure_threshold
               /\ IF d.failure_count = c.failure_threshold
                    THEN /\ d.state = "open"
                         /\ d.opened_at = now
                         /\ svc[r] \in DOMAIN CIRCUIT_STATE'
                         /\ CIRCUIT_STATE'[svc[r]] = 1
                    ELSE d.state = "closed" /\ d.opened_at = c.opened_at]_vars

\* C3's case: a circuit tripped by its failure_threshold-th failure.
C3_Witness ==
  \E s \in DOMAIN circuit_states :
    /\ circuit_states[s].state = "open"
    /\ circuit_states[s].failure_count = circuit_states[s].failure_threshold
    /\ circuit_states[s].opened_at = now
    /\ response.detail \in {"timed_out", "unavailable", "error"}
    /\ s \in DOMAIN CIRCUIT_STATE /\ CIRCUIT_STATE[s] = 1

\* C4: while the circuit is open and now - opened_at <= effective_dwell, a
\* regular request that reaches the circuit check is answered 503 "Circuit
\* open ... Retry in ~Ns" and no upstream call starts; a regular request is
\* forwarded by an open circuit only once the dwell has elapsed.
C4_OpenCircuitRejectsWithinDwell ==
  [][\A r \in Reqs :
       (/\ Entered(r)
        /\ ~HandlerIsSSE(EnteredKind(r))
        /\ EnteredService(r) \in DOMAIN circuit_states
        /\ circuit_states[EnteredService(r)].state = "open")
         => LET c == circuit_states[EnteredService(r)] IN
              /\ WithinDwell(c, now) =>
                   /\ Rejected(r)
                   /\ response'.status = 503
                   /\ response'.retry_in * 10 <=
                        c.opened_at * 10 + EffectiveDwell(c) - now * 10
                   /\ response'.retry_in * 10 >
                        c.opened_at * 10 + EffectiveDwell(c) - now * 10 - 10
                   /\ \A q \in Reqs : pc'[q] = "upstream" => pc[q] = "upstream"
              /\ Forwarded(r) => ~WithinDwell(c, now)]_vars

\* C4's case: a regular request rejected at the last instant of the dwell.
C4_Witness ==
  /\ response.detail = "circuit_open"
  /\ response.kind = "plain"
  /\ response.retry_in = 0
  /\ \E r \in Reqs : pc[r] = "done"
  /\ response.service \in DOMAIN circuit_states
  /\ circuit_states[response.service].state = "open"
  /\ now - circuit_states[response.service].opened_at
       = circuit_states[response.service].timeout

\* C5: a request that finds the circuit open with now - opened_at >
\* effective_dwell makes it half-open, adds exactly 1 to retry_count and is
\* forwarded to the upstream; for core with retry_count 0 that is any time
\* later than opened_at + 15 s.
C5_DwellElapsedHalfOpens ==
  [][\A r \in Reqs :
       (/\ Entered(r)
        /\ EnteredService(r) \in DOMAIN circuit_states
        /\ circuit_states[EnteredService(r)].state = "open")
         => LET s == EnteredService(r)
                c == circuit_states[s]
                d == circuit_states'[s]
            IN /\ ~WithinDwell(c, now) =>
                    /\ Forwarded(r)
                    /\ d = [c EXCEPT !.state = "half-open",
                                     !.retry_count = c.retry_count + 1]
               /\ (s = "core" /\ c.retry_count = 0 /\ now - c.opened_at > 15) =>
                    Forwarded(r) /\ d.state = "half-open" /\ d.retry_count = 1]_vars

\* C5's case: the probe of core is in flight, the first one since it opened.
C5_Witness ==
  /\ "core" \in DOMAIN circuit_states
  /\ circuit_states["core"].state = "half-open"
  /\ circuit_states["core"].retry_count = 1
  /\ circuit_states["core"].consecutive_successes = 0
  /\ now - circuit_states["core"].opened_at > 15
  /\ \E r \in Reqs : pc[r] = "upstream" /\ svc[r] = "core"

\* C6: the k-th failed half-open probe re-opens the circuit, and requests
\* are then rejected for base_timeout * min(5, 1 + k * backoff_factor)
\* seconds: 33 s, 51 s, 69 s for core after the 1st, 2nd, 3rd failed probe.
C6_FailedProbeLengthensDwell ==
  [][\A r \in Reqs :
       (Failed(r) /\ circuit_states[svc[r]].state = "half-open")
         => LET c == circuit_states[svc[r]]
                d == circuit_states'[svc[r]]
                k == c.retry_count
            IN /\ d.state = "open"
               /\ d.retry_count = k
               /\ EffectiveDwell(d) =
                    c.timeout * (IF 10 + k * c.backoff_factor < 50
                                   THEN 10 + k * c.backoff_factor ELSE 50)
               /\ (svc[r] = "core" /\ k \in 1..3) =>
                    EffectiveDwell(d) = (CASE k = 1 -> 330 [] k = 2 -> 510 [] k = 3 -> 690)]_vars

\* C7: in half-open a success (status < 500) adds 1 to consecutive_successes
\* and the circuit stays half-open below success_threshold; the success that
\* reaches it closes the circuit, zeroes failure_count, consecutive_successes
\* and retry_count and sets the gauge to 0.  For image the first two
\* successes keep it half-open and the third closes it.
C7_HalfOpenSuccessesClose ==
  [][\A r \in Reqs :
       (RespondedBelow500(r) /\ circuit_states[svc[r]].state = "half-open")
         => LET s == svc[r]
                c == circuit_states[s]
                d == circuit_states'[s]
            IN /\ IF c.consecutive_successes + 1 < c.success_threshold
                    THEN d = [c EXCEPT !.consecutive_successes =
                                         c.consecutive_successes + 1]
                    ELSE /\ d = [c EXCEPT !.state = "closed",
                                          !.failure_count = 0,
                                          !.consecutive_successes = 0,
                                          !.retry_count = 0]
                         /\ s \in DOMAIN CIRCUIT_STATE'
                         /\ CIRCUIT_STATE'[s] = 0
               /\ s = "image" =>
                    d.state = (IF c.consecutive_successes < 2
                                 THEN "half-open" ELSE "closed")]_vars

\* C7's case: image closed again by its third success in half-open.
C7_Witness ==
  /\ "image" \in DOMAIN circuit_states
  /\ circuit_states["image"].state = "closed"
  /\ circuit_states["image"].opened_at > 0
  /\ circuit_states["image"].failure_count = 0
  /\ "image" \in DOMAIN CIRCUIT_STATE
  /\ CIRCUIT_STATE["image"] = 0
  /\ response.status < 500
  /\ response.detail = "relay"

\* C8: any recorded failure resets consecutive_successes to 0.
C8_FailureResetsSuccesses ==
  [][\A r \in Reqs :
       Failed(r) => circuit_states'[svc[r]].consecutive_successes = 0]_vars

\* C9: in closed state every recorded outcome moves failure_count by one
\* step of the fold: + 1 for a failure, - 1 floored at 0 for a response
\* with status < 500 (which leaves the circuit closed).  A response with
\* status >= 500 is allowed either reading: not counted, or a failure.
C9_ClosedFailureCountIsFold ==
  [][\A r \in Reqs :
       (Completed(r) /\ circuit_states[svc[r]].state = "closed")
         => LET c == circuit_states[svc[r]]
                d == circuit_states'[svc[r]]
            IN /\ Failed(r) => d.failure_count = c.failure_count + 1
               /\ RespondedBelow500(r) =>
                    /\ d.state = "closed"
                    /\ d.failure_count =
                         (IF c.failure_count > 0 THEN c.failure_count - 1 ELSE 0)
               /\ Responded5xx(r) =>
                    d.failure_count \in {c.failure_count, c.failure_count + 1}]_vars

\* C10: a rejection by the open circuit leaves the circuit as it was:
\* state, failure_count, consecutive_successes, retry_count and opened_at.
C10_RejectionLeavesCircuit ==
  [][\A r \in Reqs :
       Rejected(r)
         => /\ response'.service \in DOMAIN circuit_states
            /\ circuit_states'[response'.service] = circuit_states[response'.service]
            /\ circuit_states' = circuit_states]_vars

\* C10's case: a request was rejected while another one is still in flight.
C10_Witness ==
  /\ response.detail = "circuit_open"
  /\ \E r, q \in Reqs : pc[r] = "done" /\ pc[q] = "upstream"
  /\ circuit_states[response.service].state = "open"
  /\ circuit_states[response.service].opened_at < now

\* C11: under every interleaving of concurrent requests to a service, its
\* circuit satisfies: closed => failure_count < failure_threshold,
\* open => opened_at > 0, half-open => consecutive_successes <
\* success_threshold.
C11_CircuitInvariants ==
  \A s \in DOMAIN circuit_states :
    LET c == circuit_states[s] IN
      /\ c.state \in {"closed", "open", "half-open"}
      /\ c.state = "closed" => c.failure_count < c.failure_threshold
      /\ c.state = "open" => c.opened_at > 0
      /\ c.state = "half-open" => c.consecutive_successes < c.success_threshold

\* C11's case: two requests to one service are in flight while its circuit
\* is half-open, one success short of closing.
C11_Witness ==
  \E r, q \in Reqs :
    /\ r # q
    /\ pc[r] = "upstream" /\ pc[q] = "upstream"
    /\ svc[r] = svc[q]
    /\ circuit_states[svc[r]].state = "half-open"
    /\ circuit_states[svc[r]].consecutive_successes + 1
         = circuit_states[svc[r]].success_threshold

\* The regular requests of a service that hold a permit of its gate: they
\* took it on their way to the upstream and have not come back.
Holders(s) ==
  {r \in Reqs : pc[r] = "upstream" /\ svc[r] = s /\ kind[r] # "sse"}

\* C12: the number of regular requests of a service that have acquired and
\* not yet released the admission gate never exceeds the service's capacity
\* (image 5, video 3, core 100, any other service 20).
C12_AdmissionWithinCapacity ==
  \A s \in scope :
    /\ Cardinality(Holders(s)) <=
         (CASE s = "image" -> 5 [] s = "video" -> 3 [] s = "core" -> 100
            [] OTHER -> 20)
    /\ permits[Semaphore(s)] >= 0

\* C12's case: video's gate is exhausted and a further request waits.
C12_Witness ==
  /\ Cardinality(Holders("video")) = 3
  /\ \E r \in Reqs : pc[r] = "waiting" /\ svc[r] = "video"

\* C13: a regular request gives its permit back on every way out: whenever
\* no regular request of a service is in progress, every permit of that
\* service's gate is free.
C13_AllSlotsFreeWhenIdle ==
  \A s \in scope :
    (\A r \in Reqs : svc[r] = s => kind[r] = "sse")
      => permits[Semaphore(s)] = Capacity(Semaphore(s))

\* The same, gate by gate: the permits out are exactly the regular requests
\* in flight through that gate.
GateConservation ==
  \A g \in Gates :
    permits[g] + Cardinality({r \in Reqs : /\ pc[r] = "upstream"
                                            /\ kind[r] # "sse"
                                            /\ Semaphore(svc[r]) = g})
      = Capacity(g)

\* C14: every service has an admission counter of its own: the free permits
\* of a service's gate are its capacity less the regular requests of that
\* service in flight, whatever the requests of other services do; two
\* services without an explicit capacity hold 20 permits each.
C14_GatePerService ==
  \A s \in scope :
    permits[Semaphore(s)] = Capacity(Semaphore(s)) - Cardinality(Holders(s))

\* C15: an SSE request takes no permit and never waits for one: it goes to
\* the breaker at once even when the gate of its service is exhausted, and
\* neither its arrival nor its end changes any gate.
C15_SSEBypassesAdmission ==
  [][\A r \in Reqs :
       /\ (pc[r] = "idle" /\ pc'[r] # "idle" /\ HandlerIsSSE(EnteredKind(r)))
            => /\ pc'[r] \in {"upstream", "done"}
               /\ permits' = permits
       /\ (pc[r] # "idle" /\ HandlerIsSSE(kind[r]))
            => /\ pc[r] # "waiting"
               /\ pc'[r] # pc[r] => permits' = permits
     ]_vars

\* C15's case: an SSE request is in flight to video while video's gate has
\* no permit left.
C15_Witness ==
  /\ permits[Semaphore("video")] = 0
  /\ \E r \in Reqs :
       pc[r] = "upstream" /\ svc[r] = "video" /\ HandlerIsSSE(kind[r])

\* C16, as stated: an SSE request bypasses the entry of the breaker: it is
\* forwarded whatever the state of the circuit, never rejected with 503
\* because the circuit is open, and never moves the circuit from open to
\* half-open.
C16_SSEBypassesBreakerEnter ==
  [][\A r \in Reqs :
       (Entered(r) /\ HandlerIsSSE(EnteredKind(r)))
         => LET s == EnteredService(r) IN
              /\ Forwarded(r)
              /\ circuit_states'[s] = Created(s)[s]
     ]_vars

\* C16, amended: an SSE request bypasses the admission gate but not the
\* entry of the breaker: while the circuit is open and the dwell has not
\* elapsed it is rejected with 503 and the circuit is left as it is; once
\* the dwell has elapsed it makes the circuit half-open, advances
\* retry_count and is forwarded; on a closed or half-open circuit it is
\* forwarded and the circuit is left as it is.
C16_SSEEntersBreaker ==
  [][\A r \in Reqs :
       (Entered(r) /\ HandlerIsSSE(EnteredKind(r)))
         => LET s == EnteredService(r)
                c == Created(s)[s]
            IN /\ permits' = permits
               /\ IF c.state = "open" /\ WithinDwell(c, now)
                    THEN /\ Rejected(r)
                         /\ response'.status = 503
                         /\ circuit_states'[s] = c
                    ELSE /\ Forwarded(r)
                         /\ circuit_states'[s] =
                              IF c.state = "open"
                                THEN [c EXCEPT !.state = "half-open",
                                               !.retry_count = c.retry_count + 1]
                                ELSE c
     ]_vars

\* C16's case: an SSE request has been rejected by the open circuit.
C16_Witness ==
  /\ HandlerIsSSE(response.kind)
  /\ response.detail = "circuit_open"
  /\ response.status = 503
  /\ circuit_states[response.service].state = "open"

\* C17: a transport error of an SSE request's upstream call is recorded as
\* a failure: with the circuit closed, failure_count goes up by one and the
\* circuit opens (opened_at = now) when the count reaches failure_threshold.
C17_SSETransportErrorIsFailure ==
  [][\A r \in Reqs :
       (Failed(r) /\ HandlerIsSSE(kind[r])
          /\ circuit_states[svc[r]].state = "closed")
         => LET c == circuit_states[svc[r]]
                d == circuit_states'[svc[r]]
            IN /\ d.failure_count = c.failure_count + 1
               /\ IF c.failure_count + 1 >= c.failure_threshold
                    THEN d.state = "open" /\ d.opened_at = now
                    ELSE d.state = "closed" /\ d.opened_at = c.opened_at
     ]_vars

\* C17's case: the connection error of an SSE request has opened the circuit.
C17_Witness ==
  /\ HandlerIsSSE(response.kind)
  /\ response.detail = "unavailable"
  /\ circuit_states[response.service].state = "open"
  /\ circuit_states[response.service].opened_at = now
  /\ circuit_states[response.service].failure_count
       = circuit_states[response.service].failure_threshold

\* C18: the outcome of an SSE request follows the status of the upstream's
\* answer: a status of 500 or more is recorded as a failure (closed:
\* failure_count + 1) and never as a success (no decay of failure_count, no
\* consecutive success, no closing of a half-open circuit).
C18_SSEServerErrorIsFailure ==
  [][\A r \in Reqs :
       (Responded5xx(r) /\ HandlerIsSSE(kind[r]))
         => LET c == circuit_states[svc[r]]
                d == circuit_states'[svc[r]]
            IN /\ c.state = "closed" => d.failure_count = c.failure_count + 1
               /\ d.failure_count >= c.failure_count
               /\ d.consecutive_successes <= c.consecutive_successes
               /\ c.state = "half-open" => d.state # "closed"
     ]_vars

\* C19: the handler and the client take the same SSE decision for every
\* request: a request is in flight as SSE to the one exactly when it is SSE
\* to the other.
C19_ClassifiersAgree ==
  \A r \in Reqs :
    pc[r] = "upstream" => (HandlerIsSSE(kind[r]) <=> ClientIsSSE(kind[r]))

\* C20: a timeout of the upstream call is answered with 504, a connection
\* error with 503 and any other exception with 500, and a response that is
\* neither the upstream's own nor the rejection by the open circuit has one
\* of these three statuses.
C20_GatewayErrorStatuses ==
  /\ response.detail = "timed_out" => response.status = 504
  /\ response.detail = "unavailable" => response.status = 503
  /\ response.detail = "error" => response.status = 500
  /\ response.detail \in {"none", "relay", "stream", "circuit_open",
                          "timed_out", "unavailable", "error"}
  /\ response.detail \in {"relay", "stream"} => response.status \in Statuses
  /\ response.detail = "circuit_open" => response.status = 503

\* C20's case: a request has been answered 504 after its upstream call timed
\* out.
C20_Witness ==
  /\ response.detail = "timed_out"
  /\ response.status = 504
  /\ \E r \in Reqs : pc[r] = "done"

C22_OneUpstreamCall ==
  /\ \A r \in Reqs :
       /\ calls[r] <= 1
       /\ pc[r] = "upstream" => calls[r] = 1
       /\ pc[r] \in {"idle", "waiting"} => calls[r] = 0
  /\ response.detail = "circuit_open" => response.calls = 0
  /\ response.detail \in {"relay", "stream", "timed_out", "unavailable", "error"}
       => response.calls = 1

\* C22's case: a request has been answered 504 after the one upstream call
\* made for it timed out.
C22_Witness ==
  /\ response.detail = "timed_out"
  /\ response.calls = 1
  /\ \E r \in Reqs : pc[r] = "done" /\ calls[r] = 0

\* The name of the environment variable the claims give a service.
NameUpperServiceUrl(name) ==
  CASE name = "audio" -> <<"AUDIO", "_SERVICE_URL">>
    [] name = "Payments" -> <<"PAYMENTS", "_SERVICE_URL">>
    [] name = "ghost" -> <<"GHOST", "_SERVICE_URL">>

\* C23: a lookup returns the cached URL when the name is in the registry
\* mapping; otherwise the value of {NAME_UPPER}_SERVICE_URL when that is set
\* (to something); otherwise the request is answered 404, no upstream call
\* is made and no circuit state is created.
C23_LookupOrder ==
  [][\A r \in Reqs :
       (pc[r] = "idle" /\ pc'[r] # "idle")
         => LET name == EnteredService(r)
                var == NameUpperServiceUrl(name)
            IN IF name \in DOMAIN service_cache.services
                 THEN /\ resolved' = service_cache.services[name]
                      /\ pc'[r] = "upstream"
               ELSE IF var \in DOMAIN environ /\ environ[var] # << >>
                 THEN /\ resolved' = environ[var]
                      /\ pc'[r] = "upstream"
               ELSE /\ pc'[r] = "done"
                    /\ response'.status = 404
                    /\ response'.detail = "not_found"
                    /\ response'.service = name
                    /\ response'.calls = 0
                    /\ calls' = calls
                    /\ circuit_states' = circuit_states
     ]_vars

\* C23's case: a name neither the mapping nor the environment knows has
\* been answered 404 and has no circuit state.
C23_Witness ==
  /\ response.detail = "not_found"
  /\ response.status = 404
  /\ resolved = NotFound
  /\ response.service \notin DOMAIN circuit_states
  /\ circuit_states # << >>

\* C24: the registry mapping changes in one step only, at the end of a
\* round that listed and described every service, to the mapping that round
\* built and with the time of that step; a round that fails in the listing
\* or in a description leaves mapping and timestamp as they were; and a
\* lookup reads the mapping as one of these steps left it.
C24_RefreshReplacesAtomically ==
  [][/\ service_cache' # service_cache
          => /\ refresh.pc = "describing"
             /\ refresh.todo = {}
             /\ service_cache'.services = refresh.services
             /\ service_cache'.timestamp = now
             /\ DOMAIN service_cache'.services
                  \subseteq refresh.consul_services \ {"consul"}
     /\ (refresh.pc \in {"ready", "describing"} /\ refresh'.pc = "sleeping"
           /\ ~(refresh.pc = "describing" /\ refresh.todo = {}))
          => service_cache' = service_cache
     /\ \A r \in Reqs :
          (pc[r] = "idle" /\ pc'[r] # "idle")
            => /\ service_cache' = service_cache
               /\ EnteredService(r) \in DOMAIN service_cache.services
                    => resolved' = service_cache.services[EnteredService(r)]
    ]_vars

\* C24's case: the round after a successful one has failed, and the mapping
\* is still the earlier round's, with that round's timestamp.
C24_Witness ==
  /\ refresh.pc = "sleeping"
  /\ service_cache.timestamp < now
  /\ "audio" \in DOMAIN service_cache.services

\* C25: the refresh runs as a background task after startup, so a service
\* the discovery source keeps publishing is eventually in the registry
\* mapping, with the URL of its first instance.
C25_PublishedEventuallyRegistered ==
  <>(/\ "audio" \in DOMAIN service_cache.services
     /\ service_cache.services["audio"] = <<"http://", "10.0.0.5", ":", "8004">>)

\* C26: whatever refreshes have happened, the answer to GET /services is
\* the set of names of the registry mapping at that moment.
C26_ListReflectsSnapshot ==
  [][(~listed.pending /\ listed'.pending)
       => listed'.services = DOMAIN service_cache.services]_vars

\* C26's case: GET /services has been answered with the names of a mapping
\* a refresh put in place of the seeded one.
C26_Witness ==
  /\ listed.pending
  /\ listed.services = {"audio"}
  /\ service_cache.timestamp > StartTime

\* C27: a health probe neither changes the circuit state of any service
\* (state, failure_count, consecutive_successes, retry_count, opened_at) nor
\* takes or waits for an admission slot, whatever its outcome: every step of
\* the monitor leaves the circuit states, the permits of the gates and the
\* position of every request as they were.
MonitorStep == monitor' # monitor \/ results' # results \/ running' # running

C27_ProbeBypassesBreakerAndGates ==
  [][MonitorStep =>
       /\ circuit_states' = circuit_states
       /\ CIRCUIT_STATE' = CIRCUIT_STATE
       /\ permits' = permits
       /\ pc' = pc]_vars

\* The probes of user failed while the circuit of user is closed with no
\* failure counted and every permit is free.
C27_Witness ==
  /\ monitor = "interval"
  /\ \A i \in DOMAIN results :
       results[i].service_name = "user" => results[i].last_status = "ERROR"
  /\ "user" \in DOMAIN circuit_states
  /\ circuit_states["user"].state = "closed"
  /\ circuit_states["user"].failure_count = 0
  /\ \A g \in Gates : permits[g] = Capacity(g)

\* C28: after a probe of (service, test) completes, the table of test
\* results holds exactly one row for the pair, with the status of the probe,
\* and an answer to GET /health/tests is 200 and carries that result.
LatestResult(i) == \A j \in DOMAIN results : j > i =>
                     \/ results[j].service_name # results[i].service_name
                     \/ results[j].test_name # results[i].test_name

Rows(service_name, test_name) ==
  {row \in test_results : /\ row.service_name = service_name
                          /\ row.test_name = test_name}

C28_ResultStoredAndReturned ==
  \A i \in DOMAIN results : LatestResult(i) =>
    /\ Rows(results[i].service_name, results[i].test_name) = {results[i]}
    /\ health_api.route = "tests" =>
         /\ health_api.status = 200
         /\ \E k \in DOMAIN health_api.body : health_api.body[k] = results[i]

\* C29: the status the dashboard gives a service is OK iff all of its latest
\* results pass, DEGRADED iff some pass and some fail, DOWN iff none passes.
DerivedStatus(rs, service_name) ==
  LET mine == {i \in DOMAIN rs : rs[i].service_name = service_name}
      passing == {i \in mine : rs[i].last_status = "OK"}
  IN  IF passing = mine THEN "OK"
      ELSE IF passing = {} THEN "DOWN"
      ELSE "DEGRADED"

C29_StatusDerivedFromTests ==
  monitor = "interval" =>
    \A service_name \in {results[i].service_name : i \in DOMAIN results} :
      ServiceStatus(results, service_name)
        = DerivedStatus(results, service_name)

\* C30: once the shutdown handler has run on a running monitor, no further
\* round of probes starts.
RoundStarts ==
  monitor \in {"initial_delay", "interval"} /\ monitor' = "run_test"

C30_NoRoundAfterShutdown ==
  [][shutdown = "monitor_running" => ~RoundStarts]_vars

\* C31: every transition of a circuit into open sets the service's gauge to
\* 1 and every transition back to closed sets it to 0: whenever the state is
\* open the gauge is 1, and whenever the state is closed after having been
\* open the gauge is 0.  (The gauge has a sample for a service from the first
\* time its circuit opens.)
BecomesOpen(s) ==
  /\ s \in DOMAIN circuit_states'
  /\ circuit_states'[s].state = "open"
  /\ s \in DOMAIN circuit_states => circuit_states[s].state # "open"

BecomesClosed(s) ==
  /\ s \in DOMAIN circuit_states
  /\ circuit_states[s].state # "closed"
  /\ circuit_states'[s].state = "closed"

GaugeFollowsCircuit ==
  \A s \in DOMAIN circuit_states :
    /\ circuit_states[s].state = "open" =>
         s \in DOMAIN CIRCUIT_STATE /\ CIRCUIT_STATE[s] = 1
    /\ circuit_states[s].state = "closed" /\ s \in DOMAIN CIRCUIT_STATE =>
         CIRCUIT_STATE[s] = 0

C31_GaugeFollowsCircuit ==
  [][/\ \A s \in Services :
          /\ BecomesOpen(s) =>
               s \in DOMAIN CIRCUIT_STATE' /\ CIRCUIT_STATE'[s] = 1
          /\ BecomesClosed(s) =>
               s \in DOMAIN CIRCUIT_STATE' /\ CIRCUIT_STATE'[s] = 0
     /\ GaugeFollowsCircuit']_vars

\* A circuit that opened is closed again, and its gauge is 0.
C31_Witness ==
  \E s \in DOMAIN circuit_states :
    /\ circuit_states[s].state = "closed"
    /\ s \in DOMAIN CIRCUIT_STATE
    /\ CIRCUIT_STATE[s] = 0

\* C32: in SSE mode a chunk the upstream has produced is delivered to the
\* client without waiting for the upstream to close the stream: whenever the
\* upstream has written n chunks, the client is eventually given n chunks,
\* whether or not the upstream ever closes.
C32_ChunksRelayedAsProduced ==
  \A n \in 1..MaxChunks : (stream.sent >= n) ~> (stream.delivered >= n)

ProbeRuns == (IF monitor \in {"run_test", "pause"} THEN 1 ELSE 0) + manual

InFlight(s) == {r \in Reqs : pc[r] = "upstream" /\ svc[r] = s}

C35_OneProbeInHalfOpen ==
  \A s \in DOMAIN circuit_states :
    circuit_states[s].state = "half-open" => Cardinality(InFlight(s)) <= 1

\* C36: the admission layer short-circuits when full: a regular request
\* that arrives while its service's gate is at capacity is answered at once
\* and is never queued behind the requests in flight.
C36_FullGateAnswersAtOnce == \A r \in Reqs : pc[r] # "waiting"

\* C37: every request that holds an admission slot makes its upstream call
\* under the service's request_timeout deadline (so that it ends and gives
\* the slot back even if the upstream never answers); only requests that
\* took no slot run without a deadline.
HoldsSlot(r) == pc[r] = "upstream" /\ ~HandlerIsSSE(kind[r])

HasDeadline(r) == ~ClientIsSSE(kind[r])

C37_SlotHoldersHaveDeadline ==
  \A r \in Reqs : HoldsSlot(r) => HasDeadline(r)

\* C38: in every reachable state retry_count is at most 1, and it is 0
\* whenever the circuit is open; so the dwell of an open circuit is always
\* the base timeout (multiplier 1).
C38_RetryCountBounded ==
  \A s \in DOMAIN circuit_states :
    LET c == circuit_states[s] IN
      /\ c.retry_count \in {0, 1}
      /\ c.state = "open" =>
           /\ c.retry_count = 0
           /\ BackoffMultiplier(c) = 10
           /\ TimeoutWithBackoff(c) = c.timeout * 10

\* A circuit that opened after the start has gone half-open: retry_count
\* is 1.
C38_Witness ==
  \E s \in DOMAIN circuit_states :
    /\ circuit_states[s].state = "half-open"
    /\ circuit_states[s].retry_count = 1
    /\ circuit_states[s].opened_at > StartTime

\* C39: recovery is live: once a circuit has opened, if requests for the
\* service keep arriving, time keeps advancing and from some point on every
\* upstream call returns a status below 500, the circuit eventually becomes
\* closed and stays closed.
IsOpen(s) == s \in DOMAIN circuit_states /\ circuit_states[s].state = "open"

IsClosed(s) == s \in DOMAIN circuit_states /\ circuit_states[s].state = "closed"

C39_RecoveryIsLive ==
  \A s \in Services : (<>IsOpen(s)) => <>[]IsClosed(s)

\* A circuit that opened at the start is closed again after the dwell, with
\* nothing left of the failures.
C39_Witness ==
  \E s \in DOMAIN circuit_states :
    /\ circuit_states[s].state = "closed"
    /\ circuit_states[s].opened_at = StartTime
    /\ circuit_states[s].failure_count = 0
    /\ now > StartTime

\* C40: at most one monitoring loop is active at any time: a call of
\* start_monitoring while running is true returns without starting a second
\* loop, and whenever a loop has exited (by cancellation or by an error)
\* running is false until a loop is started again.
ActiveLoops ==
  (IF monitor \in {"initial_delay", "run_test", "pause", "interval"}
     THEN 1 ELSE 0)
    + (IF second = "initial_delay" THEN 1 ELSE 0)

C40_SingleMonitoringLoop ==
  /\ ActiveLoops <= 1
  /\ running <=> ActiveLoops = 1

\* The other call returned because the loop was running, and the loop has
\* since been cancelled: no loop is left and running is false.
C40_Witness ==
  /\ second = "returned"
  /\ monitor = "ended"
  /\ ~running
====
